---------------------------- MODULE Spec2Model ----------------------------
(***************************************************************************)
(* Model of scripts/create_video.py: the seed derivation, the effect       *)
(* parameter mapper, the filter expression and the run of main.            *)
(*                                                                         *)
(* Python floats are IEEE-754 doubles.  A double x of this program         *)
(* (0 or 2^-10 <= x < 32) is held exactly, as the natural number x * 2^62  *)
(* written in four limbs of 20 bits, least significant first; every float  *)
(* operation of the source is the exact operation followed by rounding to  *)
(* 53 significant bits, ties to even, as the hardware does it.             *)
(***************************************************************************)
EXTENDS Integers, Sequences, FiniteSets, TLC

\* ------------------------------------------------------------------------
\* Double arithmetic (CPython float: +, /, int(), comparisons, literals)
\* ------------------------------------------------------------------------

Limb == 1024 * 1024

RECURSIVE Pow2(_)
Pow2(n) == IF n <= 0 THEN 1 ELSE 2 * Pow2(n - 1)

RECURSIVE Log2(_)
Log2(n) == IF n <= 1 THEN 0 ELSE 1 + Log2(n \div 2)

FZero == <<0, 0, 0, 0>>

\* int -> float, exact for the small integers of this program
FromInt(k) == <<0, 0, 0, 4 * k>>

\* carry propagation of a limb vector whose limbs may exceed the base
Carry(a) ==
    LET l1 == a[1] % Limb
        c1 == a[1] \div Limb
        l2 == (a[2] + c1) % Limb
        c2 == (a[2] + c1) \div Limb
        l3 == (a[3] + c2) % Limb
        c3 == (a[3] + c2) \div Limb
    IN  <<l1, l2, l3, a[4] + c3>>

AddExact(a, b) == Carry(<<a[1] + b[1], a[2] + b[2], a[3] + b[3], a[4] + b[4]>>)

\* exact product with a small natural k (k <= 1000)
MulSmall(a, k) == Carry(<<a[1] * k, a[2] * k, a[3] * k, a[4] * k>>)

FLt(a, b) ==
    \/ a[4] < b[4]
    \/ a[4] = b[4] /\ a[3] < b[3]
    \/ a[4] = b[4] /\ a[3] = b[3] /\ a[2] < b[2]
    \/ a[4] = b[4] /\ a[3] = b[3] /\ a[2] = b[2] /\ a[1] < b[1]

FLe(a, b) == a = b \/ FLt(a, b)

\* exact difference a - b, for b <= a
SubExact(a, b) ==
    LET d1 == a[1] - b[1]
        b1 == IF d1 < 0 THEN 1 ELSE 0
        d2 == a[2] - b[2] - b1
        b2 == IF d2 < 0 THEN 1 ELSE 0
        d3 == a[3] - b[3] - b2
        b3 == IF d3 < 0 THEN 1 ELSE 0
    IN  <<d1 + b1 * Limb, d2 + b2 * Limb, d3 + b3 * Limb, a[4] - b[4] - b3>>

\* position of the leading one bit
TopBit(a) ==
    IF a[4] > 0 THEN 60 + Log2(a[4])
    ELSE IF a[3] > 0 THEN 40 + Log2(a[3])
    ELSE IF a[2] > 0 THEN 20 + Log2(a[2])
    ELSE Log2(a[1])

\* the exact value m + rn/rd (0 <= rn < rd) rounded to 53 significant bits,
\* round-half-to-even
RoundEven(m, rn, rd) ==
    IF m = FZero THEN FZero
    ELSE
      LET q     == TopBit(m) - 52
          Q     == Pow2(q)
          low   == m[1] % Q
          down  == <<m[1] - low, m[2], m[3], m[4]>>
          up    == AddExact(down, <<Q, 0, 0, 0>>)
          twice == 2 * (low * rd + rn)
          half  == Q * rd
      IN  IF twice < half THEN down
          ELSE IF twice > half THEN up
          ELSE IF (m[1] \div Q) % 2 = 0 THEN down ELSE up

\* float + float
FAdd(a, b) == RoundEven(AddExact(a, b), 0, 1)

\* k / d for naturals k < 32 * d, d <= 1000: true division, correctly rounded.
\* A decimal literal n/d of the source is the same correctly rounded quotient.
FDiv(k, d) ==
    LET n4 == 4 * k
        q4 == n4 \div d
        r4 == n4 % d
        q3 == (r4 * Limb) \div d
        r3 == (r4 * Limb) % d
        q2 == (r3 * Limb) \div d
        r2 == (r3 * Limb) % d
        q1 == (r2 * Limb) \div d
        r1 == (r2 * Limb) % d
    IN  RoundEven(<<q1, q2, q3, q4>>, r1, d)

\* int(x): truncation toward zero of a non-negative float
FTrunc(a) == a[4] \div 4

\* the two special values a float can also hold; they are kept apart from the
\* finite values by a limb no finite value has
NaN == <<0, 0, 0, -1>>
Inf == <<0, 0, 0, -2>>
IsFinite(x) == x[4] >= 0

\* ------------------------------------------------------------------------
\* Module-level names of the script
\* ------------------------------------------------------------------------

COVER_ART    == "docs/logo/rust_beats.png"
OUTPUT_VIDEO == "output/youtube_video.mp4"
OUTPUT_DIR   == "output"

\* ------------------------------------------------------------------------
\* Bounds of the model
\* ------------------------------------------------------------------------

\* seeds 0 .. MaxSeedLo are enumerated (every residue of every modulus, and
\* every pair of residues modulo 100 and 15), next to 2^32 - 1 and digests
MaxSeedLo == 299
\* playback is sampled every 1/16 s, for MaxTick samples
MaxTick == 96
\* modification times of the files in output/
MaxMtime == 2

\* ------------------------------------------------------------------------
\* Seeds: a seed below 2^32 is <<high 16 bits, low 16 bits>>
\* ------------------------------------------------------------------------

Half == 256 * 256

\* rand_seed % K
SeedMod(s, K) == ((s[1] % K) * (Half % K) + (s[2] % K)) % K

\* the paths glob can return in this model
Mp3Files == {"output/song_a.mp3", "output/song_b.mp3", "output/final_song.mp3"}

\* hashlib.md5(filename.encode()).hexdigest()[:8], one entry per hex digit
Md5Hex8(filename) ==
    CASE filename = "output/song_a.mp3"     -> <<5, 6, 6, 1, 1, 2, 10, 8>>
      [] filename = "output/song_b.mp3"     -> <<12, 0, 13, 2, 2, 9, 15, 12>>
      [] filename = "output/final_song.mp3" -> <<4, 13, 3, 8, 10, 4, 4, 0>>

\* int(hash_hex, 16), or ValueError when a character is no hex digit
IsHex(h) == \A i \in 1..Len(h) : h[i] \in 0..15
HexInt(h) ==
    << ((h[1] * 16 + h[2]) * 16 + h[3]) * 16 + h[4],
       ((h[5] * 16 + h[6]) * 16 + h[7]) * 16 + h[8] >>

\* the fallback seed 12345
FallbackSeed == <<0, 12345>>

generate_random_seed(filename) ==
    LET hash_hex == Md5Hex8(filename)
    IN  IF IsHex(hash_hex) THEN HexInt(hash_hex) ELSE FallbackSeed

\* ------------------------------------------------------------------------
\* calculate_effects
\* ------------------------------------------------------------------------

\* vibration_freq with the modulus of shake_interval
vibration_freq_mod100(s) == FAdd(FromInt(2), FDiv(SeedMod(s, 100), 10))

\* vibration_intensity with floor division, (rand_seed % 10) // 10
vibration_intensity_floordiv(s) == FAdd(FDiv(5, 10), FromInt(SeedMod(s, 10) \div 10))

\* total_padding with one pixel less of margin, int(vibration_intensity + 4)
total_padding_short(vi) == FTrunc(FAdd(vi, FromInt(4)))

\* 0.5 + (rand_seed % 10) / 10.0
vibration_intensity(s) == FAdd(FDiv(5, 10), FDiv(SeedMod(s, 10), 10))

\* 2.0 + (rand_seed % 30) / 10.0
vibration_freq(s) == FAdd(FromInt(2), FDiv(SeedMod(s, 30), 10))

\* 8.0 + (rand_seed % 100) / 10.0
shake_interval(s) == FAdd(FromInt(8), FDiv(SeedMod(s, 100), 10))

\* 0.10 + (rand_seed % 15) / 100
shake_duration(s) == FAdd(FDiv(10, 100), FDiv(SeedMod(s, 15), 100))

\* 0.01 + (rand_seed % 20) / 1000
brightness(s) == FAdd(FDiv(1, 100), FDiv(SeedMod(s, 20), 1000))

\* 1.03 + (rand_seed % 40) / 1000
contrast(s) == FAdd(FDiv(103, 100), FDiv(SeedMod(s, 40), 1000))

\* 1.08 + (rand_seed % 40) / 1000
saturation(s) == FAdd(FDiv(108, 100), FDiv(SeedMod(s, 40), 1000))

\* int(vibration_intensity + 5)
total_padding(vi) == FTrunc(FAdd(vi, FromInt(5)))

calculate_effects(s) ==
    [ vibration_intensity |-> vibration_intensity(s),
      vibration_freq      |-> vibration_freq(s),
      shake_interval      |-> shake_interval(s),
      shake_duration      |-> shake_duration(s),
      brightness          |-> brightness(s),
      contrast            |-> contrast(s),
      saturation          |-> saturation(s),
      total_padding       |-> total_padding(vibration_intensity(s)) ]

EffectKeys == { "vibration_intensity", "vibration_freq", "shake_interval",
                "shake_duration", "brightness", "contrast", "saturation",
                "total_padding" }

\* ------------------------------------------------------------------------
\* The filter expression of create_video, as the sequence of its lexical
\* pieces.  A piece is [t |-> text, v |-> value]: fixed text has v = FZero,
\* an interpolated field has t = "num" and the interpolated value.
\* ------------------------------------------------------------------------

Txt(ss) == [i \in 1..Len(ss) |-> [t |-> ss[i], v |-> FZero]]

\* f"{n}" of an int
FmtInt(n) == << [t |-> "int", v |-> FromInt(n)] >>

\* f"{x}" of a float: the decimal text of a finite number, "nan" or "inf"
Fmt(x) ==
    << [t |-> (IF x = NaN THEN "nan" ELSE IF x = Inf THEN "inf" ELSE "num"),
        v |-> x] >>

\* line 87
ScaleStage ==
    Txt(<<"[", "0:v", "]", "scale", "=",
          "1280:720:force_original_aspect_ratio=decrease",
          "[", "scaled", "]">>)

\* line 88
CenterPadStage ==
    Txt(<<"[", "scaled", "]", "pad", "=", "1280:720:",
          "(", "ow-iw", ")", "/2:", "(", "oh-ih", ")", "/2",
          "[", "centered", "]">>)

\* the third stage writing [pad] where the crop stage reads [padded]
HeadroomPadStageMislabelled(eff) ==
    LET pad == FmtInt(eff["total_padding"])
    IN     Txt(<<"[", "centered", "]", "pad", "=", "1280+">>) \o pad
        \o Txt(<<"*2:720+">>) \o pad \o Txt(<<"*2:">>)
        \o pad \o Txt(<<":">>) \o pad \o Txt(<<"[", "pad", "]">>)

\* lines 89-90
HeadroomPadStage(eff) ==
    LET pad == FmtInt(eff["total_padding"])
    IN     Txt(<<"[", "centered", "]", "pad", "=", "1280+">>) \o pad
        \o Txt(<<"*2:720+">>) \o pad \o Txt(<<"*2:">>)
        \o pad \o Txt(<<":">>) \o pad \o Txt(<<"[", "padded", "]">>)

\* lines 91-97
CropStage(eff) ==
    LET pad == FmtInt(eff["total_padding"])
        vi  == Fmt(eff["vibration_intensity"])
        vf  == Fmt(eff["vibration_freq"])
        si  == Fmt(eff["shake_interval"])
        sd  == Fmt(eff["shake_duration"])
    IN     Txt(<<"[", "padded", "]", "crop", "=", "1280:720:">>)
        \o Txt(<<"'">>) \o pad \o Txt(<<"+">>) \o vi
        \o Txt(<<"*sin", "(", "2*PI*t*">>) \o vf \o Txt(<<")", "+">>)
        \o Txt(<<"if", "(", "lt", "(", "mod", "(", "t,">>) \o si
        \o Txt(<<")", ",">>) \o sd \o Txt(<<")", ",">>)
        \o vi \o Txt(<<"*3*sin", "(", "20*PI*t", ")", ",0", ")", "'", ":">>)
        \o Txt(<<"'">>) \o pad \o Txt(<<"+">>) \o vi
        \o Txt(<<"*cos", "(", "2*PI*t*">>) \o vf \o Txt(<<")", "+">>)
        \o Txt(<<"if", "(", "lt", "(", "mod", "(", "t+">>) \o si
        \o Txt(<<"*0.3,">>) \o si \o Txt(<<")", ",">>) \o sd \o Txt(<<")", ",">>)
        \o vi \o Txt(<<"*3*cos", "(", "20*PI*t", ")", ",0", ")", "'">>)
        \o Txt(<<"[", "shaken_vibrated", "]">>)

\* lines 98-99
EqStage(eff) ==
       Txt(<<"[", "shaken_vibrated", "]", "eq", "=", "brightness=">>)
    \o Fmt(eff["brightness"])
    \o Txt(<<":contrast=">>) \o Fmt(eff["contrast"])
    \o Txt(<<":saturation=">>) \o Fmt(eff["saturation"])
    \o Txt(<<"[", "v", "]">>)

filter_complex(eff) ==
       ScaleStage \o Txt(<<";">>) \o CenterPadStage \o Txt(<<";">>)
    \o HeadroomPadStage(eff) \o Txt(<<";">>) \o CropStage(eff) \o Txt(<<";">>)
    \o EqStage(eff)

\* the encoder command: the arguments that vary, and the stream labels mapped
ffmpeg_cmd(mp3, cover_art, output_video, eff) ==
    [ exe            |-> "ffmpeg",
      inputs         |-> <<cover_art, mp3>>,
      filter_complex |-> filter_complex(eff),
      map            |-> <<"v", "1:a">>,
      output         |-> output_video ]

\* ------------------------------------------------------------------------
\* What the expression means to the encoder: the stages of the graph and the
\* crop position at playback time t.  The encoder evaluates the arithmetic
\* of the crop expression on the interpolated values; it is taken exactly.
\* ------------------------------------------------------------------------

\* the stages, split at the ";" separators
RECURSIVE SplitStages(_)
SplitStages(f) ==
    IF \E i \in 1..Len(f) : f[i].t = ";"
      THEN LET i == CHOOSE k \in 1..Len(f) :
                      f[k].t = ";" /\ \A j \in 1..(k - 1) : f[j].t # ";"
           IN  <<SubSeq(f, 1, i - 1)>> \o SplitStages(SubSeq(f, i + 1, Len(f)))
      ELSE <<f>>

\* the label a stage reads, the filter it names, the label it writes
StageIn(st) ==
    IF Len(st) >= 3 /\ st[1].t = "[" /\ st[3].t = "]" THEN st[2].t ELSE ""
StageName(st) == IF Len(st) >= 4 THEN st[4].t ELSE ""
StageOut(st) ==
    IF Len(st) >= 3 /\ st[Len(st) - 2].t = "[" /\ st[Len(st)].t = "]"
      THEN st[Len(st) - 1].t ELSE ""

\* Nesting(f, open, close, lo, hi): over the pieces lo..hi, counting open
\* as +1 and close as -1, <<the sum, the least prefix sum, the greatest
\* prefix sum>>
RECURSIVE Nesting(_, _, _, _, _)
Nesting(f, open, close, lo, hi) ==
    IF lo = hi
      THEN LET d == IF f[lo].t = open THEN 1 ELSE IF f[lo].t = close THEN -1 ELSE 0
           IN  <<d, IF d < 0 THEN d ELSE 0, IF d > 0 THEN d ELSE 0>>
      ELSE LET mid == (lo + hi) \div 2
               L   == Nesting(f, open, close, lo, mid)
               R   == Nesting(f, open, close, mid + 1, hi)
               mn  == IF L[2] < L[1] + R[2] THEN L[2] ELSE L[1] + R[2]
               mx  == IF L[3] > L[1] + R[3] THEN L[3] ELSE L[1] + R[3]
           IN  <<L[1] + R[1], mn, mx>>

\* every bracket and parenthesis closes and none closes unopened, labels do
\* not nest, and the quotes pair up
Balanced(f) ==
    /\ Len(f) > 0
    /\ LET br == Nesting(f, "[", "]", 1, Len(f))
           pa == Nesting(f, "(", ")", 1, Len(f))
       IN  /\ br[1] = 0 /\ br[2] = 0 /\ br[3] <= 1
           /\ pa[1] = 0 /\ pa[2] = 0
    /\ Cardinality({i \in 1..Len(f) : f[i].t = "'"}) % 2 = 0

Labels(f) == {i \in 1..Len(f) : f[i].t = "["}

\* playback time of sample n: n/16 s
TickTime(n) == Carry(<<0, 0, n * Pow2(18), 0>>)

\* mod(a, b) for b > 0
RECURSIVE FMod(_, _)
FMod(a, b) == IF FLt(a, b) THEN a ELSE FMod(SubExact(a, b), b)

\* lt(mod(t, shake_interval), shake_duration)
HBurst(eff, tm) ==
    FLt(FMod(tm, eff["shake_interval"]), eff["shake_duration"])

\* the vertical burst test without its phase shift of 0.3 * shake_interval
VBurstNoPhase(eff, tm) ==
    FLt(FMod(tm, eff["shake_interval"]), eff["shake_duration"])

\* lt(mod(t + shake_interval*0.3, shake_interval), shake_duration), with both
\* sides of each comparison multiplied by 10
VBurst(eff, tm) ==
    FLt(FMod(AddExact(MulSmall(tm, 10), MulSmall(eff["shake_interval"], 3)),
             MulSmall(eff["shake_interval"], 10)),
        MulSmall(eff["shake_duration"], 10))

\* the values sin and cos are given: their extremes and zero
Osc == {-1, 0, 1}

\* A crop offset total_padding + vi*o1 + (burst ? vi*3*o2 : 0) for o1, o2 in
\* Osc, as the pair of what is added and what is subtracted
CropOffset(eff, burst, o1, o2) ==
    LET vi    == eff["vibration_intensity"]
        shake == IF burst THEN MulSmall(vi, 3) ELSE FZero
    IN  [ plus  |-> AddExact(FromInt(eff["total_padding"]),
                      AddExact(IF o1 = 1 THEN vi ELSE FZero,
                               IF o2 = 1 THEN shake ELSE FZero)),
          minus |-> AddExact(IF o1 = -1 THEN vi ELSE FZero,
                             IF o2 = -1 THEN shake ELSE FZero) ]

\* the x and y arguments of crop at time tm
CropX(eff, tm, o1, o2) == CropOffset(eff, HBurst(eff, tm), o1, o2)
CropY(eff, tm, o1, o2) == CropOffset(eff, VBurst(eff, tm), o1, o2)

\* 0 <= offset <= 2 * total_padding: the 1280x720 window lies inside the
\* padded frame of (1280 + 2*total_padding) x (720 + 2*total_padding)
InsidePadded(eff, off) ==
    /\ FLe(off.minus, off.plus)
    /\ FLe(off.plus, AddExact(off.minus, FromInt(2 * eff["total_padding"])))

\* ------------------------------------------------------------------------
\* get_audio_duration
\* ------------------------------------------------------------------------

\* the fallback duration, in seconds
FallbackDuration == 180

\* What the probe can do.  spawn: whether ffprobe could be started; rc: its
\* exit status; out: its standard output, as what float() makes of it
\* ("num" a decimal number of n seconds, "nan", "inf", or "junk" for empty or
\* non-numeric text).
ProbeOutcomes ==
    { [spawn |-> FALSE, rc |-> 0, out |-> [k |-> "junk", n |-> 0]],
      [spawn |-> TRUE,  rc |-> 1, out |-> [k |-> "junk", n |-> 0]],
      [spawn |-> TRUE,  rc |-> 1, out |-> [k |-> "num",  n |-> 240]] }
    \cup
    { [spawn |-> TRUE, rc |-> 0, out |-> o] :
        o \in { [k |-> "junk", n |-> 0], [k |-> "nan", n |-> 0],
                [k |-> "inf", n |-> 0] }
          \cup { [k |-> "num", n |-> d] : d \in {-5, 0, 1, 240} } }

IsPositive(d) == d.k = "inf" \/ (d.k = "num" /\ d.n > 0)

\* the result of get_audio_duration: the exception it lets through ("" for
\* none) and the value it returns
get_audio_duration(probe) ==
    IF ~probe.spawn
      THEN [raised |-> "FileNotFoundError", value |-> [k |-> "none", n |-> 0]]
    ELSE IF probe.rc # 0            \* CalledProcessError, caught
      THEN [raised |-> "", value |-> [k |-> "num", n |-> FallbackDuration]]
    ELSE IF probe.out.k = "junk"    \* ValueError, caught
      THEN [raised |-> "", value |-> [k |-> "num", n |-> FallbackDuration]]
    ELSE [raised |-> "",
          value  |-> IF IsPositive(probe.out) THEN probe.out
                     ELSE [k |-> "num", n |-> FallbackDuration]]

\* ------------------------------------------------------------------------
\* State: two independent runs of the script
\* ------------------------------------------------------------------------

Runs == {1, 2}

VARIABLES
    pc,              \* where each run is
    mp3_file,        \* main: mp3_file
    audio_duration,  \* main: audio_duration
    rand_seed,       \* main: rand_seed
    effects,         \* main: effects
    cmd,             \* create_video: cmd, once built
    created,         \* what create_video returned
    events,          \* external calls made and lines printed, in order
    error,           \* the exception that ended the run, "" for none
    exit_status,     \* -1 while running
    tick             \* playback position of the encoder, in 1/16 s

vars == <<pc, mp3_file, audio_duration, rand_seed, effects, cmd, created,
          events, error, exit_status, tick>>

NoDuration == [k |-> "none", n |-> 0]
NoEffects  == [key \in EffectKeys |-> 0]
NoCmd      == [exe |-> "", inputs |-> <<>>, filter_complex |-> <<>>,
               map |-> <<>>, output |-> ""]

Did(r, ev) == \E i \in 1..Len(events[r]) : events[r][i] = ev
Count(r, ev) == Cardinality({i \in 1..Len(events[r]) : events[r][i] = ev})
\* position of the first occurrence of ev, 0 when there is none
First(r, ev) ==
    IF Did(r, ev)
      THEN CHOOSE i \in 1..Len(events[r]) :
             events[r][i] = ev /\ \A j \in 1..(i - 1) : events[r][j] # ev
      ELSE 0

\* an exception nobody catches: traceback, exit status 1
Uncaught(r, name, evs) ==
    /\ error' = [error EXCEPT ![r] = name]
    /\ events' = [events EXCEPT ![r] = @ \o evs \o <<"traceback">>]
    /\ exit_status' = [exit_status EXCEPT ![r] = 1]
    /\ pc' = [pc EXCEPT ![r] = "exit"]

\* sys.exit(1) after the lines printed
SysExit1(r, evs) ==
    /\ events' = [events EXCEPT ![r] = @ \o evs]
    /\ exit_status' = [exit_status EXCEPT ![r] = 1]
    /\ pc' = [pc EXCEPT ![r] = "exit"]

\* ------------------------------------------------------------------------
\* main, step by step
\* ------------------------------------------------------------------------

\* main: the cover art check
CheckCover(r) ==
    /\ pc[r] = "check_cover"
    /\ \E exists \in BOOLEAN :
         IF exists
           THEN /\ pc' = [pc EXCEPT ![r] = "find"]
                /\ events' = [events EXCEPT ![r] = @ \o <<"exists_cover">>]
                /\ UNCHANGED exit_status
           ELSE SysExit1(r, <<"exists_cover", "print_no_cover">>)
    /\ UNCHANGED <<mp3_file, audio_duration, rand_seed, effects, cmd, created,
                   error, tick>>

\* the files glob found that a descending sort by modification time can put
\* first
Latest(files, mtime) == {f \in files : \A g \in files : mtime[g] <= mtime[f]}

\* main: mp3_file = find_latest_mp3(), and the lines printed after it
find_latest_mp3(r) ==
    /\ pc[r] = "find"
    /\ \E files \in SUBSET Mp3Files, mtime \in [Mp3Files -> 1..MaxMtime] :
         IF files = {}
           THEN /\ SysExit1(r, <<"glob", "print_no_mp3">>)
                /\ UNCHANGED mp3_file
           ELSE \E f \in Latest(files, mtime) :
                  /\ mp3_file' = [mp3_file EXCEPT ![r] = f]
                  /\ events' = [events EXCEPT ![r] = @ \o <<"glob", "print_creating">>]
                  /\ pc' = [pc EXCEPT ![r] = "probe"]
                  /\ UNCHANGED exit_status
    /\ UNCHANGED <<audio_duration, rand_seed, effects, cmd, created, error, tick>>

\* main: audio_duration = get_audio_duration(mp3_file)
GetAudioDuration(r) ==
    /\ pc[r] = "probe"
    /\ \E probe \in ProbeOutcomes :
         LET res == get_audio_duration(probe)
         IN  IF res.raised # ""
               THEN /\ Uncaught(r, res.raised, <<"ffprobe">>)
                    /\ UNCHANGED audio_duration
               ELSE /\ audio_duration' = [audio_duration EXCEPT ![r] = res.value]
                    /\ events' = [events EXCEPT ![r] = @ \o
                         <<"ffprobe", IF probe.rc = 0 /\ IsPositive(probe.out)
                                        THEN "probe_ok" ELSE "probe_failed">>]
                    /\ pc' = [pc EXCEPT ![r] = "seed"]
                    /\ UNCHANGED <<error, exit_status>>
    /\ UNCHANGED <<mp3_file, rand_seed, effects, cmd, created, tick>>

\* the seed taken from the probed duration instead of the file name
GenerateRandomSeedFromDuration(r) ==
    /\ pc[r] = "seed"
    /\ rand_seed' = [rand_seed EXCEPT ![r] = <<0, audio_duration[r].n>>]
    /\ events' = [events EXCEPT ![r] = @ \o <<"seed">>]
    /\ pc' = [pc EXCEPT ![r] = "effects"]
    /\ UNCHANGED <<mp3_file, audio_duration, effects, cmd, created, error,
                   exit_status, tick>>

\* main: rand_seed = generate_random_seed(mp3_file)
GenerateRandomSeed(r) ==
    /\ pc[r] = "seed"
    /\ rand_seed' = [rand_seed EXCEPT ![r] = generate_random_seed(mp3_file[r])]
    /\ events' = [events EXCEPT ![r] = @ \o <<"seed">>]
    /\ pc' = [pc EXCEPT ![r] = "effects"]
    /\ UNCHANGED <<mp3_file, audio_duration, effects, cmd, created, error,
                   exit_status, tick>>

\* main: effects = calculate_effects(rand_seed), and the lines printed after it
CalculateEffects(r) ==
    /\ pc[r] = "effects"
    /\ effects' = [effects EXCEPT ![r] = calculate_effects(rand_seed[r])]
    /\ events' = [events EXCEPT ![r] = @ \o <<"effects", "print_effects">>]
    /\ pc' = [pc EXCEPT ![r] = "create_video"]
    /\ UNCHANGED <<mp3_file, audio_duration, rand_seed, cmd, created, error,
                   exit_status, tick>>

\* create_video up to the start of the encoder: the expression is built
\* (KeyError when a field is missing), then subprocess.run starts ffmpeg
\* (FileNotFoundError when it cannot be started)
CreateVideoStart(r) ==
    /\ pc[r] = "create_video"
    /\ IF DOMAIN effects[r] # EffectKeys
         THEN /\ Uncaught(r, "KeyError", <<>>)
              /\ UNCHANGED cmd
         ELSE /\ cmd' = [cmd EXCEPT ![r] =
                   ffmpeg_cmd(mp3_file[r], COVER_ART, OUTPUT_VIDEO, effects[r])]
              /\ \E started \in BOOLEAN :
                   IF started
                     THEN /\ events' = [events EXCEPT ![r] = @ \o <<"ffmpeg">>]
                          /\ pc' = [pc EXCEPT ![r] = "encoding"]
                          /\ UNCHANGED <<error, exit_status>>
                     ELSE Uncaught(r, "FileNotFoundError", <<"ffmpeg">>)
    /\ UNCHANGED <<mp3_file, audio_duration, rand_seed, effects, created, tick>>

\* create_video from the end of the encoder: True, or the error line and False
EncoderExit(r) ==
    /\ pc[r] = "encoding"
    /\ \E rc \in {0, 1} :
         /\ created' = [created EXCEPT ![r] = (rc = 0)]
         /\ events' = [events EXCEPT ![r] = @ \o
              (IF rc = 0 THEN <<"ffmpeg_ok">>
                         ELSE <<"ffmpeg_failed", "print_error_creating">>)]
    /\ pc' = [pc EXCEPT ![r] = "returned"]
    /\ UNCHANGED <<mp3_file, audio_duration, rand_seed, effects, cmd, error,
                   exit_status, tick>>

\* main reporting success whatever create_video returned
MainReportIgnoringResult(r) ==
    /\ pc[r] = "returned"
    /\ \E exists \in BOOLEAN :
         events' = [events EXCEPT ![r] = @ \o
           (IF exists THEN <<"print_success", "print_size">>
                      ELSE <<"print_success">>)]
    /\ exit_status' = [exit_status EXCEPT ![r] = 0]
    /\ pc' = [pc EXCEPT ![r] = "exit"]
    /\ UNCHANGED <<mp3_file, audio_duration, rand_seed, effects, cmd, created,
                   error, tick>>

\* main after create_video: the success lines, or sys.exit(1)
MainReport(r) ==
    /\ pc[r] = "returned"
    /\ IF created[r]
         THEN /\ \E exists \in BOOLEAN :
                   events' = [events EXCEPT ![r] = @ \o
                     (IF exists THEN <<"print_success", "print_size">>
                                ELSE <<"print_success">>)]
              /\ exit_status' = [exit_status EXCEPT ![r] = 0]
              /\ pc' = [pc EXCEPT ![r] = "exit"]
         ELSE SysExit1(r, <<>>)
    /\ UNCHANGED <<mp3_file, audio_duration, rand_seed, effects, cmd, created,
                   error, tick>>

\* the encoder reaches its next sample of playback time
Frame(r) ==
    /\ pc[r] = "encoding"
    /\ tick[r] < MaxTick
    /\ tick' = [tick EXCEPT ![r] = @ + 1]
    /\ UNCHANGED <<pc, mp3_file, audio_duration, rand_seed, effects, cmd,
                   created, events, error, exit_status>>

\* ------------------------------------------------------------------------
\* Specifications
\* ------------------------------------------------------------------------

Fresh ==
    /\ mp3_file = [r \in Runs |-> ""]
    /\ audio_duration = [r \in Runs |-> NoDuration]
    /\ rand_seed = [r \in Runs |-> <<0, 0>>]
    /\ effects = [r \in Runs |-> NoEffects]
    /\ cmd = [r \in Runs |-> NoCmd]
    /\ created = [r \in Runs |-> FALSE]
    /\ events = [r \in Runs |-> <<>>]
    /\ error = [r \in Runs |-> ""]
    /\ exit_status = [r \in Runs |-> -1]
    /\ tick = [r \in Runs |-> 0]

\* Two runs of the script, from their start
Init ==
    /\ pc = [r \in Runs |-> "check_cover"]
    /\ Fresh

Next ==
    \E r \in Runs :
        \/ CheckCover(r)
        \/ find_latest_mp3(r)
        \/ GetAudioDuration(r)
        \/ GenerateRandomSeed(r)
        \/ CalculateEffects(r)
        \/ CreateVideoStart(r)
        \/ EncoderExit(r)
        \/ MainReport(r)

Spec == Init /\ [][Next]_vars

\* ------------------------------------------------------------------------
\* The effect pipeline on its own: calculate_effects on every seed of
\* SeedSet, the expression built from the result, and the playback of it
\* ------------------------------------------------------------------------

SeedSet ==
    {<<0, lo>> : lo \in 0..MaxSeedLo}
    \cup {<<Half - 1, Half - 1>>}
    \cup {generate_random_seed(f) : f \in Mp3Files}

InitEffects ==
    /\ pc = [r \in Runs |-> IF r = 1 THEN "effects" ELSE "off"]
    /\ \E s \in SeedSet : rand_seed = [r \in Runs |-> IF r = 1 THEN s ELSE <<0, 0>>]
    /\ mp3_file = [r \in Runs |-> IF r = 1 THEN "output/song_a.mp3" ELSE ""]
    /\ audio_duration = [r \in Runs |-> NoDuration]
    /\ effects = [r \in Runs |-> NoEffects]
    /\ cmd = [r \in Runs |-> NoCmd]
    /\ created = [r \in Runs |-> FALSE]
    /\ events = [r \in Runs |-> <<>>]
    /\ error = [r \in Runs |-> ""]
    /\ exit_status = [r \in Runs |-> -1]
    /\ tick = [r \in Runs |-> 0]

NextEffects ==
    \/ CalculateEffects(1)
    \/ CreateVideoStart(1)
    \/ Frame(1)

SpecEffects == InitEffects /\ [][NextEffects]_vars

\* ------------------------------------------------------------------------
\* create_video called on its own, with any effects dictionary: the result
\* of calculate_effects, or one with a field NaN, infinite or absent
\* ------------------------------------------------------------------------

FloatKeys == EffectKeys \ {"total_padding"}

Without(eff, key) == [k \in (DOMAIN eff) \ {key} |-> eff[k]]

BuilderInputs ==
    LET good == {calculate_effects(s) :
                   s \in {<<0, 0>>, <<0, 14>>, <<Half - 1, Half - 1>>}
                         \cup {generate_random_seed(f) : f \in Mp3Files}}
    IN  good
        \cup {[e EXCEPT ![k] = x] : e \in good, k \in FloatKeys, x \in {NaN, Inf}}
        \cup {Without(e, k) : e \in good, k \in EffectKeys}

WellFormed(eff) ==
    /\ DOMAIN eff = EffectKeys
    /\ \A k \in FloatKeys : IsFinite(eff[k])

InitBuilder ==
    /\ pc = [r \in Runs |-> IF r = 1 THEN "create_video" ELSE "off"]
    /\ \E e \in BuilderInputs : effects = [r \in Runs |-> IF r = 1 THEN e ELSE NoEffects]
    /\ mp3_file = [r \in Runs |-> IF r = 1 THEN "output/song_a.mp3" ELSE ""]
    /\ audio_duration = [r \in Runs |-> NoDuration]
    /\ rand_seed = [r \in Runs |-> <<0, 0>>]
    /\ cmd = [r \in Runs |-> NoCmd]
    /\ created = [r \in Runs |-> FALSE]
    /\ events = [r \in Runs |-> <<>>]
    /\ error = [r \in Runs |-> ""]
    /\ exit_status = [r \in Runs |-> -1]
    /\ tick = [r \in Runs |-> 0]

NextBuilder ==
    \/ CreateVideoStart(1)
    \/ EncoderExit(1)

SpecBuilder == InitBuilder /\ [][NextBuilder]_vars

\* ------------------------------------------------------------------------
\* Properties
\* ------------------------------------------------------------------------

Computed(r) == Did(r, "effects")
Built(r) == cmd[r] # NoCmd

\* lo <= x <= hi, the bounds being the doubles the decimal bounds denote
InRange(x, lo, hi) == FLe(lo, x) /\ FLe(x, hi)

\* the next double above x
NextUp(x) == AddExact(x, <<Pow2(TopBit(x) - 52), 0, 0, 0>>)

RangesButDuration(e) ==
    /\ InRange(e["vibration_intensity"], FDiv(5, 10), FDiv(14, 10))
    /\ InRange(e["vibration_freq"], FromInt(2), FDiv(49, 10))
    /\ InRange(e["shake_interval"], FromInt(8), FDiv(179, 10))
    /\ InRange(e["brightness"], FDiv(10, 1000), FDiv(29, 1000))
    /\ InRange(e["contrast"], FDiv(1030, 1000), FDiv(1069, 1000))
    /\ InRange(e["saturation"], FDiv(1080, 1000), FDiv(1119, 1000))
    /\ e["total_padding"] \in {5, 6}

\* C1, as stated: for every seed >= 0, 0 and 2^32 - 1 included, every field
\* of calculate_effects(seed) is within its stated range, shake_duration
\* within [0.10, 0.24].
C1_RangesAsStated ==
    \A r \in Runs : Computed(r) =>
        /\ RangesButDuration(effects[r])
        /\ InRange(effects[r]["shake_duration"], FDiv(10, 100), FDiv(24, 100))

\* C1, amended: every field is within its stated range, except that
\* shake_duration lies in [0.10, 0.24000000000000002]: it exceeds 0.24 by one
\* unit in the last place exactly when seed mod 15 = 14, where the double sum
\* 0.10 + 14/100 rounds upward.
C1_RangesUpToRounding ==
    \A r \in Runs : Computed(r) =>
        /\ RangesButDuration(effects[r])
        /\ InRange(effects[r]["shake_duration"], FDiv(10, 100), NextUp(FDiv(24, 100)))
        /\ FLt(FDiv(24, 100), effects[r]["shake_duration"])
             <=> SeedMod(rand_seed[r], 15) = 14

C1_Witness ==
    /\ Computed(1)
    /\ rand_seed[1] = <<Half - 1, Half - 1>>
    /\ effects[1]["shake_duration"] = FDiv(10, 100)

\* C2: for every seed and every playback time, whatever values in [-1, 1]
\* the sin and cos factors take, both crop offsets lie in
\* [0, 2 * total_padding]; equivalently 4 * vibration_intensity <=
\* total_padding.
C2_CropInsidePadded ==
    \A r \in Runs : Computed(r) =>
        LET e == effects[r]
        IN  /\ FLe(MulSmall(e["vibration_intensity"], 4), FromInt(e["total_padding"]))
            /\ \A burst \in BOOLEAN, o1 \in Osc, o2 \in Osc :
                 InsidePadded(e, CropOffset(e, burst, o1, o2))
            /\ pc[r] = "encoding" =>
                 \A o1 \in Osc, o2 \in Osc :
                   /\ InsidePadded(e, CropX(e, TickTime(tick[r]), o1, o2))
                   /\ InsidePadded(e, CropY(e, TickTime(tick[r]), o1, o2))

C2_Witness ==
    /\ pc[1] = "encoding"
    /\ tick[1] > 0
    /\ HBurst(effects[1], TickTime(tick[1]))
    /\ effects[1]["vibration_intensity"] = FDiv(14, 10)
    /\ CropX(effects[1], TickTime(tick[1]), -1, -1).minus
         = MulSmall(effects[1]["vibration_intensity"], 4)

StageNames == <<"scale", "pad", "pad", "crop", "eq">>

GraphValid(c) ==
    LET f  == c.filter_complex
        st == SplitStages(f)
    IN  /\ Len(st) = 5
        /\ \A i \in 1..5 : StageName(st[i]) = StageNames[i]
        /\ StageIn(st[1]) = "0:v"
        /\ \A i \in 2..5 : StageIn(st[i]) # "" /\ StageIn(st[i]) = StageOut(st[i - 1])
        /\ \A i \in 1..5, j \in 1..5 : i # j => StageOut(st[i]) # StageOut(st[j])
        /\ \A i \in 1..5 : Cardinality(Labels(st[i])) = 2
        /\ Balanced(f)
        /\ StageOut(st[5]) = "v"
        /\ c.map[1] = StageOut(st[5])

\* C3: the expression is a chain of five stages, scale, pad, pad, crop, eq;
\* each stage after the first reads the label the stage before it wrote;
\* every intermediate label is written once and read once; brackets,
\* parentheses and quotes are balanced; the one label left over is [v], the
\* label the command maps.
C3_GraphValid == \A r \in Runs : Built(r) => GraphValid(cmd[r])

C3_Witness ==
    /\ Built(1)
    /\ Did(1, "ffmpeg")
    /\ effects[1]["total_padding"] = 6
    /\ Len(SplitStages(cmd[1].filter_complex)) = 5

\* C4: two runs given the same identifier have the same seed, the same
\* effect parameters and the same filter expression, whatever the probed
\* duration and whatever else happened in either run.
C4_SameIdentifierSameOutput ==
    \A r1 \in Runs, r2 \in Runs : mp3_file[r1] = mp3_file[r2] =>
        /\ Did(r1, "seed") /\ Did(r2, "seed") => rand_seed[r1] = rand_seed[r2]
        /\ Computed(r1) /\ Computed(r2) => effects[r1] = effects[r2]
        /\ Built(r1) /\ Built(r2) =>
             cmd[r1].filter_complex = cmd[r2].filter_complex

C4_Witness ==
    /\ mp3_file[1] = mp3_file[2]
    /\ audio_duration[1] # audio_duration[2]
    /\ Built(1) /\ Built(2)
    /\ Did(1, "ffmpeg_ok") /\ error[2] = "FileNotFoundError"

EncoderFailed(r) ==
    \/ Did(r, "ffmpeg_failed")
    \/ Did(r, "ffmpeg") /\ error[r] = "FileNotFoundError"

\* C5: in every run the encoder is invoked at most once; when the invocation
\* failed, the success line is never printed and the run can only end, with
\* a non-zero exit status; the success line is printed only after the
\* encoder succeeded.
C5_EncoderOnceAndFatal ==
    \A r \in Runs :
        /\ Count(r, "ffmpeg") <= 1
        /\ EncoderFailed(r) =>
             /\ ~Did(r, "print_success")
             /\ pc[r] \in {"returned", "exit"}
             /\ pc[r] = "returned" => ~created[r]
             /\ pc[r] = "exit" => exit_status[r] > 0
        /\ Did(r, "print_success") =>
             /\ Did(r, "ffmpeg_ok")
             /\ First(r, "ffmpeg_ok") < First(r, "print_success")

C5_Witness ==
    /\ Did(1, "ffmpeg_failed")
    /\ pc[1] = "exit"
    /\ exit_status[1] = 1
    /\ Did(2, "print_success")

\* the probe was called and let an exception through
ProbeRaised(r) == Did(r, "ffprobe") /\ ~Did(r, "seed") /\ error[r] # ""

\* C6: get_audio_duration never lets an error through and always returns a
\* positive duration: the parsed value when the probe succeeded with a
\* positive number, 180.0 in every other case.
C6_ProbeNeverRaises ==
    \A r \in Runs : Did(r, "ffprobe") =>
        /\ ~ProbeRaised(r)
        /\ IsPositive(audio_duration[r])
        /\ Did(r, "probe_failed") =>
             audio_duration[r] = [k |-> "num", n |-> FallbackDuration]

\* C7: when the effects handed to create_video are malformed (a field NaN,
\* infinite or absent), no expression is built and the encoder is not
\* invoked.
C7_MalformedFailsFast ==
    \A r \in Runs : pc[r] # "off" /\ ~WellFormed(effects[r]) =>
        /\ ~Built(r)
        /\ ~Did(r, "ffmpeg")

\* C8: for every seed and every playback time the horizontal and the
\* vertical shake burst are never active together; equivalently
\* shake_duration <= 0.3 * shake_interval and shake_duration <=
\* 0.7 * shake_interval.
C8_BurstsApart ==
    \A r \in Runs : Computed(r) =>
        LET e == effects[r]
        IN  /\ FLe(MulSmall(e["shake_duration"], 10), MulSmall(e["shake_interval"], 3))
            /\ FLe(MulSmall(e["shake_duration"], 10), MulSmall(e["shake_interval"], 7))
            /\ pc[r] = "encoding" =>
                 ~(HBurst(e, TickTime(tick[r])) /\ VBurst(e, TickTime(tick[r])))

C8_Witness ==
    /\ pc[1] = "encoding"
    /\ VBurst(effects[1], TickTime(tick[1]))
    /\ ~HBurst(effects[1], TickTime(tick[1]))

MinimumEffects ==
    [ vibration_intensity |-> FDiv(5, 10),
      vibration_freq      |-> FromInt(2),
      shake_interval      |-> FromInt(8),
      shake_duration      |-> FDiv(10, 100),
      brightness          |-> FDiv(1, 100),
      contrast            |-> FDiv(103, 100),
      saturation          |-> FDiv(108, 100),
      total_padding       |-> 5 ]

\* C9: calculate_effects(0) returns every field at the minimum of its range;
\* a field equals its minimum exactly when the seed is a multiple of the
\* field's modulus (10, 30, 100, 15, 20, 40, 40), and total_padding = 5
\* exactly when seed mod 10 < 5.
C9_MinimumAtMultiples ==
    \A r \in Runs : Computed(r) =>
        LET s == rand_seed[r]
            e == effects[r]
            m == MinimumEffects
        IN  /\ s = <<0, 0>> => e = m
            /\ e["vibration_intensity"] = m["vibration_intensity"] <=> SeedMod(s, 10) = 0
            /\ e["vibration_freq"] = m["vibration_freq"] <=> SeedMod(s, 30) = 0
            /\ e["shake_interval"] = m["shake_interval"] <=> SeedMod(s, 100) = 0
            /\ e["shake_duration"] = m["shake_duration"] <=> SeedMod(s, 15) = 0
            /\ e["brightness"] = m["brightness"] <=> SeedMod(s, 20) = 0
            /\ e["contrast"] = m["contrast"] <=> SeedMod(s, 40) = 0
            /\ e["saturation"] = m["saturation"] <=> SeedMod(s, 40) = 0
            /\ e["total_padding"] = 5 <=> SeedMod(s, 10) < 5

C9_Witness ==
    /\ Computed(1)
    /\ rand_seed[1] = <<0, 0>>
    /\ effects[1] = MinimumEffects

\* b happened, and a happened before it
Before(r, a, b) == Did(r, b) => Did(r, a) /\ First(r, a) < First(r, b)

\* C10: in every run the probe and the encoder are invoked only after the
\* cover check and the MP3 discovery succeeded, in the order cover check,
\* discovery, probe, seed, effects, encoder; a missing cover or no MP3 ends
\* the run with status 1 without probe or encoder; a probe failure alone
\* does not end the run.
C10_OrderAndExits ==
    \A r \in Runs :
        /\ Before(r, "exists_cover", "glob")
        /\ Before(r, "glob", "ffprobe")
        /\ Before(r, "ffprobe", "seed")
        /\ Before(r, "seed", "effects")
        /\ Before(r, "effects", "ffmpeg")
        /\ Did(r, "print_no_cover") \/ Did(r, "print_no_mp3") =>
             /\ pc[r] = "exit" /\ exit_status[r] = 1
             /\ ~Did(r, "ffprobe") /\ ~Did(r, "ffmpeg")
        /\ ~(pc[r] = "exit" /\ Did(r, "ffprobe") /\ ~Did(r, "seed"))

=============================================================================
